---- MODULE Spec2Model ----
(***************************************************************************)
(* Model of the Slack search query builder of Search_Query_Builder.py.     *)
(*                                                                         *)
(* Python strings are TLA+ strings (TLC evaluates Len, \o, Head, Tail and  *)
(* SubSeq on them).  Python's None is the empty tuple and a present        *)
(* optional value v is the one-element tuple <<v>>.  A datetime.date is a  *)
(* record [year, month, day].                                              *)
(***************************************************************************)
EXTENDS FiniteSets, Integers, Sequences, TLC

VARIABLES
    pc,           \* "start": the call is about to run, "done": it returned
    fn,           \* the function that is called
    args,         \* its arguments, a record with one field per parameter
    query_parts,  \* build_query's local list at its return statement
    query,        \* what build_query returned
    date_str,     \* what format_date_for_slack returned
    file,         \* data/channels.json: the persisted document
    call,         \* the last channel-store call: its name and arguments
    ret,          \* what that call returned or raised
    prev,         \* the document as it was when that call began
    sess,         \* per session: where its save_channel call stands
    form          \* the search form: its widgets, st.session_state, the last run

builderVars == <<pc, fn, args, query_parts, query, date_str>>
storeVars == <<file, call, ret, prev>>
vars == <<pc, fn, args, query_parts, query, date_str, file, call, ret, prev, sess, form>>

(***************************************************************************)
(* Bounds of the enumerated inputs.                                        *)
(***************************************************************************)
MaxUserLen == 3
MaxKwLen == 2

(***************************************************************************)
(* Python values and built-ins.                                            *)
(***************************************************************************)
None == <<>>
Some(v) == <<v>>

\* bool(s) of a str
Truthy(s) == s # ""

\* bool(v) of an Optional[str]: None and "" are falsy
TruthyOpt(v) == v # None /\ v[1] # ""

\* the characters str.strip() removes
Whitespace == {" ", "\t", "\n", "\r"}

RECURSIVE lstrip(_)
lstrip(s) == IF s # "" /\ Head(s) \in Whitespace THEN lstrip(Tail(s)) ELSE s

RECURSIVE rstrip(_)
rstrip(s) ==
    IF s # "" /\ SubSeq(s, Len(s), Len(s)) \in Whitespace
    THEN rstrip(SubSeq(s, 1, Len(s) - 1))
    ELSE s

strip(s) == rstrip(lstrip(s))

startswith(s, prefix) ==
    Len(s) >= Len(prefix) /\ SubSeq(s, 1, Len(prefix)) = prefix

\* sep.join(parts)
RECURSIVE join(_, _)
join(sep, parts) ==
    IF parts = <<>> THEN ""
    ELSE IF Len(parts) = 1 THEN parts[1]
    ELSE parts[1] \o sep \o join(sep, Tail(parts))

Digits == "0123456789"
Digit(n) == SubSeq(Digits, n + 1, n + 1)

\* n in decimal, zero-padded to w digits (n < 10^w)
RECURSIVE ZeroPad(_, _)
ZeroPad(n, w) == IF w = 0 THEN "" ELSE ZeroPad(n \div 10, w - 1) \o Digit(n % 10)

\* date_obj.strftime("%Y-%m-%d") and date_obj.strftime("%Y"), for the years
\* 1000..9999 (the form's date widgets offer years around the current one)
strftime_Ymd(d) ==
    ZeroPad(d.year, 4) \o "-" \o ZeroPad(d.month, 2) \o "-" \o ZeroPad(d.day, 2)
strftime_Y(d) == ZeroPad(d.year, 4)

(***************************************************************************)
(* The module's constants and functions.                                   *)
(***************************************************************************)
\* FILE_TYPE_MAPPING with one operator misspelt
FILE_TYPE_MAPPING_misspelt ==
    [PDF |-> "has:pdf",
     Image |-> "has:image",
     Snippet |-> "has:snippet",
     GDoc |-> "has:doc",
     Spreadsheet |-> "has:spreadsheet"]

FILE_TYPE_MAPPING ==
    [PDF |-> "has:pdf",
     Image |-> "has:image",
     Snippet |-> "has:snippet",
     GDoc |-> "has:gdoc",
     Spreadsheet |-> "has:spreadsheet"]

month_names ==
    <<"January", "February", "March", "April", "May", "June",
      "July", "August", "September", "October", "November", "December">>

\* quick_date with the two checks in the other order
quick_date_yesterday_first(is_today, is_yesterday) ==
    IF is_yesterday THEN Some("yesterday")
    ELSE IF is_today THEN Some("today")
    ELSE None

\* the today/yesterday checks of format_date_for_slack
quick_date(is_today, is_yesterday) ==
    IF is_today THEN Some("today")
    ELSE IF is_yesterday THEN Some("yesterday")
    ELSE None

\* format_branch with the month followed by the year ("%B %Y")
format_branch_month_year(d, format_type) ==
    IF format_type = "Full Date" THEN strftime_Ymd(d)
    ELSE IF format_type = "Month"
         THEN month_names[(d.month - 1) + 1] \o " " \o strftime_Y(d)
    ELSE IF format_type = "Year" THEN strftime_Y(d)
    ELSE strftime_Ymd(d)

\* the format_type branches of format_date_for_slack, for a present date d
format_branch(d, format_type) ==
    IF format_type = "Full Date" THEN strftime_Ymd(d)
    ELSE IF format_type = "Month" THEN month_names[(d.month - 1) + 1]
    ELSE IF format_type = "Year" THEN strftime_Y(d)
    ELSE strftime_Ymd(d)

format_date_for_slack(date_obj, format_type, is_today, is_yesterday) ==
    IF quick_date(is_today, is_yesterday) # None
    THEN quick_date(is_today, is_yesterday)
    ELSE IF date_obj = None THEN None
    ELSE Some(format_branch(date_obj[1], format_type))

\* channel_part without the "if channel" guard
channel_part_unguarded(channel) == <<"in:#" \o channel>>

\* "if channel: query_parts.append(...)"
channel_part(channel) ==
    IF Truthy(channel) THEN <<"in:#" \o channel>> ELSE <<>>

\* from_user_part without the startswith("@") test
from_user_part_always_prefixed(from_user) ==
    IF Truthy(from_user)
    THEN LET stripped == strip(from_user)
             user == IF Truthy(stripped) THEN "@" \o stripped ELSE stripped
         IN  <<"from:" \o user>>
    ELSE <<>>

\* "if from_user: ..."
from_user_part(from_user) ==
    IF Truthy(from_user)
    THEN LET stripped == strip(from_user)
             user == IF Truthy(stripped) /\ ~startswith(stripped, "@")
                     THEN "@" \o stripped
                     ELSE stripped
         IN  <<"from:" \o user>>
    ELSE <<>>

\* "if file_type and file_type in FILE_TYPE_MAPPING: ..."
file_type_part(file_type) ==
    IF Truthy(file_type) /\ file_type \in DOMAIN FILE_TYPE_MAPPING
    THEN <<FILE_TYPE_MAPPING[file_type]>>
    ELSE <<>>

\* one date slot of build_query: the guard, the call and the append
slot_part(operator, date, format, is_today, is_yesterday) ==
    IF date # None \/ is_today \/ is_yesterday
    THEN LET s == format_date_for_slack(date, format, is_today, is_yesterday)
         IN  IF TruthyOpt(s) THEN <<operator \o s[1]>> ELSE <<>>
    ELSE <<>>

\* date_parts without the "if date_enabled" gate
date_parts_ungated(a) ==
    IF a.use_during
    THEN slot_part("during:", a.during_date, a.during_date_format,
                   a.during_is_today, a.during_is_yesterday)
    ELSE slot_part("after:", a.start_date, a.start_date_format,
                   a.start_is_today, a.start_is_yesterday)
         \o slot_part("before:", a.end_date, a.end_date_format,
                      a.end_is_today, a.end_is_yesterday)

\* date_parts with the range branch not under "else"
date_parts_no_else(a) ==
    IF a.date_enabled
    THEN (IF a.use_during
          THEN slot_part("during:", a.during_date, a.during_date_format,
                         a.during_is_today, a.during_is_yesterday)
          ELSE <<>>)
         \o slot_part("after:", a.start_date, a.start_date_format,
                      a.start_is_today, a.start_is_yesterday)
         \o slot_part("before:", a.end_date, a.end_date_format,
                      a.end_is_today, a.end_is_yesterday)
    ELSE <<>>

\* date_parts with the end slot guarded and flagged by the start slot's values
date_parts_end_from_start(a) ==
    IF a.date_enabled
    THEN IF a.use_during
         THEN slot_part("during:", a.during_date, a.during_date_format,
                        a.during_is_today, a.during_is_yesterday)
         ELSE slot_part("after:", a.start_date, a.start_date_format,
                        a.start_is_today, a.start_is_yesterday)
              \o (IF a.start_date # None \/ a.start_is_today \/ a.start_is_yesterday
                  THEN slot_part("before:", a.end_date, a.end_date_format,
                                 a.end_is_today, a.end_is_yesterday)
                  ELSE <<>>)
    ELSE <<>>

\* "if date_enabled: ..."
date_parts(a) ==
    IF a.date_enabled
    THEN IF a.use_during
         THEN slot_part("during:", a.during_date, a.during_date_format,
                        a.during_is_today, a.during_is_yesterday)
         ELSE slot_part("after:", a.start_date, a.start_date_format,
                        a.start_is_today, a.start_is_yesterday)
              \o slot_part("before:", a.end_date, a.end_date_format,
                           a.end_is_today, a.end_is_yesterday)
    ELSE <<>>

\* "if keywords: ..."
keywords_part(keywords) ==
    IF Truthy(keywords)
    THEN LET keywords_clean == strip(keywords)
         IN  IF Truthy(keywords_clean) THEN <<keywords_clean>> ELSE <<>>
    ELSE <<>>

\* build_query_parts with the file type appended before the user
build_query_parts_swapped(a) ==
    channel_part(a.channel)
    \o file_type_part(a.file_type)
    \o from_user_part(a.from_user)
    \o date_parts(a)
    \o keywords_part(a.keywords)

\* query_parts when build_query reaches its return statement
build_query_parts(a) ==
    channel_part(a.channel)
    \o from_user_part(a.from_user)
    \o file_type_part(a.file_type)
    \o date_parts(a)
    \o keywords_part(a.keywords)

\* return " ".join(query_parts)
build_query(a) == join(" ", build_query_parts(a))

(***************************************************************************)
(* More Python built-ins, for the channel store.                           *)
(***************************************************************************)
\* the printable ASCII characters in code point order: chr(32)..chr(95) and
\* chr(97)..chr(126)
AsciiLow == " !\"#$%&'()*+,-./0123456789:;<=>?@ABCDEFGHIJKLMNOPQRSTUVWXYZ[\\]^_"
AsciiHigh == "abcdefghijklmnopqrstuvwxyz{|}~"

\* the code point of each of these characters
CodePoints ==
    [c \in {SubSeq(AsciiLow, i, i) : i \in 1..Len(AsciiLow)}
            \cup {SubSeq(AsciiHigh, i, i) : i \in 1..Len(AsciiHigh)} |->
        IF \E i \in 1..Len(AsciiLow) : SubSeq(AsciiLow, i, i) = c
        THEN 31 + (CHOOSE i \in 1..Len(AsciiLow) : SubSeq(AsciiLow, i, i) = c)
        ELSE 96 + (CHOOSE i \in 1..Len(AsciiHigh) : SubSeq(AsciiHigh, i, i) = c)]

ord(c) == CodePoints[c]

\* a < b on str: lexicographic by code point
RECURSIVE str_lt(_, _)
str_lt(a, b) ==
    IF a = "" THEN b # ""
    ELSE IF b = "" THEN FALSE
    ELSE IF Head(a) = Head(b) THEN str_lt(Tail(a), Tail(b))
    ELSE ord(Head(a)) < ord(Head(b))

\* x in lst
contains(lst, x) == \E i \in 1..Len(lst) : lst[i] = x

\* one step of the sort: x put after the last element that is not greater
RECURSIVE insort(_, _)
insort(lst, x) ==
    IF lst = <<>> THEN <<x>>
    ELSE IF str_lt(x, lst[1]) THEN <<x>> \o lst
    ELSE <<lst[1]>> \o insort(Tail(lst), x)

\* sorted(lst) of a list of str
RECURSIVE sorted(_)
sorted(lst) ==
    IF lst = <<>> THEN <<>>
    ELSE insort(sorted(SubSeq(lst, 1, Len(lst) - 1)), lst[Len(lst)])

\* lst.index(x), 1-based, for x in lst
list_index(lst, x) == CHOOSE i \in 1..Len(lst) : lst[i] = x /\ \A j \in 1..(i - 1) : lst[j] # x

\* list_remove that drops the last element whatever x is
list_remove_last(lst, x) == SubSeq(lst, 1, Len(lst) - 1)

\* lst after lst.remove(x), for x in lst
list_remove(lst, x) ==
    SubSeq(lst, 1, list_index(lst, x) - 1) \o SubSeq(lst, list_index(lst, x) + 1, Len(lst))

\* a call that returned value, and a call that raised the exception exc
Returned(value) == [raised |-> "", value |-> value]
Raised(exc) == [raised |-> exc, value |-> <<>>]

(***************************************************************************)
(* The persisted document data/channels.json.                              *)
(***************************************************************************)
\* no file; text json.load rejects (a truncated document is one); a JSON
\* value that is not an array; an array holding a str and a number; an
\* array of str
AbsentFile == [kind |-> "absent", items |-> <<>>]
UnparseableFile == [kind |-> "unparseable", items |-> <<>>]
NotArrayFile == [kind |-> "not_array", items |-> <<>>]
MixedArrayFile == [kind |-> "mixed_array", items |-> <<>>]
StringArrayFile(items) == [kind |-> "string_array", items |-> items]

\* how the write of save_channels ends: it succeeds, open() raises IOError
\* (the file is untouched), or open() has truncated the file and json.dump
\* or the close raises IOError
IoOutcomes == {"ok", "open_fails", "write_fails"}

(***************************************************************************)
(* The channel store (the same functions in both pages).                   *)
(***************************************************************************)
load_channels(f) ==
    IF f.kind = "absent" THEN Returned(<<>>)
    ELSE IF f.kind = "unparseable" THEN Returned(<<>>)
    ELSE IF f.kind = "not_array" THEN Returned(<<>>)
    ELSE IF f.kind = "mixed_array" THEN Raised("TypeError")
    ELSE Returned(sorted(f.items))

\* the outcome of a store call: the document it leaves and what it returns
Outcome(f, r) == [file |-> f, ret |-> r]

save_channels(channels_list, f, io) ==
    IF io = "ok"
    THEN Outcome(StringArrayFile(sorted(channels_list)),
                 Returned(<<TRUE, "Channels saved successfully!">>))
    ELSE IF io = "open_fails"
    THEN Outcome(f, Returned(<<FALSE, "Error saving channels to file">>))
    ELSE Outcome(UnparseableFile, Returned(<<FALSE, "Error saving channels to file">>))

\* normalized without the removal of the leading "#"
normalized_keeps_hash(channel) == strip(channel)

\* "channel = channel.strip(); if channel.startswith("#"): ..."
normalized(channel) ==
    LET stripped == strip(channel)
    IN  IF startswith(stripped, "#")
        THEN strip(SubSeq(stripped, 2, Len(stripped)))
        ELSE stripped

\* save_channel_loaded without the "already exists" check
save_channel_loaded_no_duplicate_check(channel, channels, f, io) ==
    LET name == normalized(channel)
    IN  IF ~Truthy(name)
        THEN Outcome(f, Returned(<<FALSE, "Channel name cannot be empty">>))
        ELSE save_channels(sorted(Append(channels, name)), f, io)

\* save_channel_loaded without the "cannot be empty" check
save_channel_loaded_no_empty_check(channel, channels, f, io) ==
    LET name == normalized(channel)
    IN  IF contains(channels, name)
        THEN Outcome(f, Returned(<<FALSE, "Channel '" \o name \o "' already exists">>))
        ELSE save_channels(sorted(Append(channels, name)), f, io)

\* save_channel from the point where load_channels has returned channels
save_channel_loaded(channel, channels, f, io) ==
    LET name == normalized(channel)
    IN  IF ~Truthy(name)
        THEN Outcome(f, Returned(<<FALSE, "Channel name cannot be empty">>))
        ELSE IF contains(channels, name)
        THEN Outcome(f, Returned(<<FALSE, "Channel '" \o name \o "' already exists">>))
        ELSE save_channels(sorted(Append(channels, name)), f, io)

save_channel(channel, f, io) ==
    IF load_channels(f).raised # ""
    THEN Outcome(f, load_channels(f))
    ELSE save_channel_loaded(channel, load_channels(f).value, f, io)

delete_channel(channel, f, io) ==
    IF load_channels(f).raised # ""
    THEN Outcome(f, load_channels(f))
    ELSE LET channels == load_channels(f).value
         IN  IF ~contains(channels, channel)
             THEN Outcome(f, Returned(<<FALSE, "Channel '" \o channel \o "' not found">>))
             ELSE save_channels(list_remove(channels, channel), f, io)

\* update_channel with the "cannot be empty" check before the "not found" check
update_channel_empty_first(old_channel, new_channel, f, io) ==
    IF load_channels(f).raised # ""
    THEN Outcome(f, load_channels(f))
    ELSE LET channels == load_channels(f).value
             name == normalized(new_channel)
         IN  IF ~Truthy(name)
             THEN Outcome(f, Returned(<<FALSE, "Channel name cannot be empty">>))
             ELSE IF ~contains(channels, old_channel)
             THEN Outcome(f, Returned(<<FALSE, "Channel '" \o old_channel \o "' not found">>))
             ELSE IF contains(channels, name) /\ name # old_channel
             THEN Outcome(f, Returned(<<FALSE, "Channel '" \o name \o "' already exists">>))
             ELSE save_channels(
                      sorted([channels EXCEPT ![list_index(channels, old_channel)] = name]),
                      f, io)

update_channel(old_channel, new_channel, f, io) ==
    IF load_channels(f).raised # ""
    THEN Outcome(f, load_channels(f))
    ELSE LET channels == load_channels(f).value
             name == normalized(new_channel)
         IN  IF ~contains(channels, old_channel)
             THEN Outcome(f, Returned(<<FALSE, "Channel '" \o old_channel \o "' not found">>))
             ELSE IF ~Truthy(name)
             THEN Outcome(f, Returned(<<FALSE, "Channel name cannot be empty">>))
             ELSE IF contains(channels, name) /\ name # old_channel
             THEN Outcome(f, Returned(<<FALSE, "Channel '" \o name \o "' already exists">>))
             ELSE save_channels(
                      sorted([channels EXCEPT ![list_index(channels, old_channel)] = name]),
                      f, io)

(***************************************************************************)
(* The inputs of the calls.                                                *)
(***************************************************************************)
\* all strings over chars of length at most n
RECURSIVE Strings(_, _)
Strings(chars, n) ==
    IF n = 0 THEN {""}
    ELSE {""} \cup {c \o s : c \in chars, s \in Strings(chars, n - 1)}

UserChars == {" ", "@", "b"}
KeywordChars == {" ", "k"}

\* the channel select box offers "" and the stored channel names
Channels == {"", "eng"}
FromUsers == Strings(UserChars, MaxUserLen)
\* the select box's options, and two values it does not offer
FileTypes == {"", "PDF", "Image", "Snippet", "GDoc", "Spreadsheet", "pdf", "Video"}
Keywords == Strings(KeywordChars, MaxKwLen)
Formats == {"Full Date", "Month", "Year", "Quarter"}

Date(y, m, d) == [year |-> y, month |-> m, day |-> d]
Years == {2024, 2026}
Months == 1..12
Days == {1, 28}
Dates == {Date(y, m, d) : y \in Years, m \in Months, d \in Days}
OptDates == {None} \cup {Some(d) : d \in Dates}

\* a date slot: the four values build_query takes for during, start and end
Slot(date, format, is_today, is_yesterday) ==
    [date |-> date, format |-> format,
     is_today |-> is_today, is_yesterday |-> is_yesterday]
EmptySlot == Slot(None, "Full Date", FALSE, FALSE)

\* the slots the date-logic inputs range over
SlotDates == {None, Some(Date(2024, 3, 5)), Some(Date(2026, 11, 28))}
Slots ==
    {Slot(d, f, t, y) : d \in SlotDates, f \in {"Full Date", "Month"},
                        t \in BOOLEAN, y \in BOOLEAN}

\* the argument record of build_query
BuildArgs(channel, from_user, file_type, date_enabled, use_during, during, start, end, keywords) ==
    [channel |-> channel, from_user |-> from_user, file_type |-> file_type,
     date_enabled |-> date_enabled, use_during |-> use_during,
     during_date |-> during.date, during_date_format |-> during.format,
     during_is_today |-> during.is_today,
     during_is_yesterday |-> during.is_yesterday,
     start_date |-> start.date, start_date_format |-> start.format,
     start_is_today |-> start.is_today,
     start_is_yesterday |-> start.is_yesterday,
     end_date |-> end.date, end_date_format |-> end.format,
     end_is_today |-> end.is_today, end_is_yesterday |-> end.is_yesterday,
     keywords |-> keywords]

\* date arguments the text inputs are combined with: <<date_enabled,
\* use_during, during, start, end>>
DateSamples ==
    {<<FALSE, FALSE, EmptySlot, EmptySlot, EmptySlot>>,
     <<TRUE, FALSE, EmptySlot, EmptySlot, EmptySlot>>,
     <<TRUE, TRUE, Slot(None, "Full Date", TRUE, FALSE), EmptySlot, EmptySlot>>,
     <<TRUE, TRUE, Slot(Some(Date(2024, 3, 5)), "Year", FALSE, FALSE),
       EmptySlot, EmptySlot>>,
     <<TRUE, FALSE, EmptySlot, Slot(Some(Date(2024, 3, 5)), "Full Date", FALSE, FALSE),
       Slot(Some(Date(2026, 11, 28)), "Month", FALSE, FALSE)>>,
     <<TRUE, FALSE, EmptySlot, EmptySlot,
       Slot(None, "Full Date", FALSE, TRUE)>>}

\* every text field varies, the date arguments are samples
TextInputs ==
    {BuildArgs(c, u, ft, ds[1], ds[2], ds[3], ds[4], ds[5], k) :
        c \in Channels, u \in FromUsers, ft \in FileTypes,
        ds \in DateSamples, k \in Keywords}

\* every date argument varies, the text fields are all empty or all set
DateInputs ==
    {BuildArgs(tx[1], tx[2], tx[3], en, ud, d, s, e, tx[4]) :
        tx \in {<<"", "", "", "">>, <<"eng", "bob", "PDF", "deploy">>},
        en \in BOOLEAN, ud \in BOOLEAN,
        d \in Slots, s \in Slots, e \in Slots}

BuildInputs == TextInputs \cup DateInputs

FormatInputs ==
    [date_obj : OptDates, format_type : Formats,
     is_today : BOOLEAN, is_yesterday : BOOLEAN]

(***************************************************************************)
(* The inputs of the channel store.                                        *)
(***************************************************************************)
\* what is typed into the "Add a new channel" and edit boxes, and passed to
\* the functions directly
RawNames == {"", "  ", "#", "# ", "general", "#general", " general ", "# general", "##general", "ops", "Ops"}

\* the names the store can come to hold
StorableNames == {normalized(raw) : raw \in RawNames} \ {""}

\* the names delete_channel and update_channel are asked to find: the rows
\* of the channel list, and one that is never stored
ListedNames == StorableNames \cup {" general "}

\* lists of at most n storable names
RECURSIVE NameLists(_)
NameLists(n) ==
    IF n = 0 THEN {<<>>}
    ELSE NameLists(n - 1) \cup {Append(l, x) : l \in NameLists(n - 1), x \in StorableNames}

\* documents data/channels.json can hold when the page starts, written by
\* the store or by hand
Documents ==
    {AbsentFile, UnparseableFile, NotArrayFile, MixedArrayFile}
    \cup {StringArrayFile(l) : l \in NameLists(3)}

\* what the two sessions type
SessionNames == {"general", "#general", "ops"}
Sessions == {1, 2}

\* a record of a store call
Call(op, channel, new_channel, io) ==
    [op |-> op, channel |-> channel, new_channel |-> new_channel, io |-> io]
NoCall == Call("", "", "", "")

\* a session that has not clicked yet
IdleSession == [pc |-> "idle", channel |-> "", channels |-> <<>>, ret |-> Returned(<<>>)]

(***************************************************************************)
(* The date section of the search form: the two checkboxes, the flags and  *)
(* dates kept in st.session_state, and the script run that follows every   *)
(* widget event.                                                           *)
(***************************************************************************)
DateSlots == {"during", "start", "end"}

Flags(is_today, is_yesterday) == [is_today |-> is_today, is_yesterday |-> is_yesterday]

Click(slot, button, before) == [slot |-> slot, button |-> button, before |-> before]
NoClick == Click("", "", None)

\* the slot's buttons are drawn: "if date_enabled:", "if use_during: ... else:"
Rendered(f, slot) ==
    f.date_enabled /\ (IF slot = "during" THEN f.use_during ELSE ~f.use_during)

\* "if 'during_is_today' not in st.session_state: ... = False" and the like
initialized_flags(f, slot) ==
    IF Rendered(f, slot) /\ f.flags[slot] = None
    THEN Some(Flags(FALSE, FALSE))
    ELSE f.flags[slot]

\* "if 'during_date' not in st.session_state: ... = datetime.now().date()",
\* the same for start_date_value; end_date_value is initialised to None
initialized_date(f, slot) ==
    IF Rendered(f, slot) /\ f.date[slot] = "absent"
    THEN IF slot = "end" THEN "None" ELSE "now"
    ELSE f.date[slot]

\* the flags of the slot that reach build_query
passed_flags(f, slot) ==
    IF Rendered(f, slot) THEN initialized_flags(f, slot)[1] ELSE Flags(FALSE, FALSE)

\* one run of the script, top to bottom, on the state the event left
rerun(f) ==
    [f EXCEPT !.flags = [slot \in DateSlots |-> initialized_flags(f, slot)],
              !.date = [slot \in DateSlots |-> initialized_date(f, slot)],
              !.passed = [slot \in DateSlots |-> passed_flags(f, slot)]]

\* "if use_today:" without the assignment to is_yesterday
click_today_keeps_yesterday(flags) == [flags EXCEPT !.is_today = TRUE]

\* "if use_today: ...is_today = True; ...is_yesterday = False"
click_today(flags) == [flags EXCEPT !.is_today = TRUE, !.is_yesterday = FALSE]

\* "if use_yesterday: ...is_today = False; ...is_yesterday = True"
click_yesterday(flags) == [flags EXCEPT !.is_today = FALSE, !.is_yesterday = TRUE]

\* "if reset_during: ...is_today = False; ...is_yesterday = False"
click_reset(flags) == [flags EXCEPT !.is_today = FALSE, !.is_yesterday = FALSE]

\* the form before its first run with the date filter enabled
NewForm ==
    [date_enabled |-> FALSE,
     use_during |-> FALSE,
     flags |-> [slot \in DateSlots |-> None],
     date |-> [slot \in DateSlots |-> "absent"],
     passed |-> [slot \in DateSlots |-> Flags(FALSE, FALSE)],
     click |-> NoClick]

\* the variables of the parts a specification leaves alone
BuilderUnused ==
    /\ pc = "none" /\ fn = "" /\ args = <<>>
    /\ query_parts = <<>> /\ query = "" /\ date_str = None
StoreUnused ==
    /\ file = AbsentFile /\ prev = AbsentFile
    /\ call = NoCall /\ ret = Returned(<<>>)
SessionsUnused == sess = [s \in Sessions |-> IdleSession]
FormUnused == form = NewForm

(***************************************************************************)
(* The state machine: one call of one of the two functions.                *)
(***************************************************************************)
Init ==
    /\ pc = "start"
    /\ \/ fn = "build_query" /\ args \in BuildInputs
       \/ fn = "format_date_for_slack" /\ args \in FormatInputs
    /\ query_parts = <<>>
    /\ query = ""
    /\ date_str = None
    /\ StoreUnused
    /\ SessionsUnused
    /\ FormUnused

BuildQueryCall ==
    /\ pc = "start"
    /\ fn = "build_query"
    /\ query_parts' = build_query_parts(args)
    /\ query' = build_query(args)
    /\ pc' = "done"
    /\ UNCHANGED <<fn, args, date_str, storeVars, sess, form>>

FormatDateCall ==
    /\ pc = "start"
    /\ fn = "format_date_for_slack"
    /\ date_str' = format_date_for_slack(args.date_obj, args.format_type,
                                         args.is_today, args.is_yesterday)
    /\ pc' = "done"
    /\ UNCHANGED <<fn, args, query_parts, query, storeVars, sess, form>>

Next == BuildQueryCall \/ FormatDateCall

Spec == Init /\ [][Next]_vars

BuiltQuery == pc = "done" /\ fn = "build_query"
FormattedDate == pc = "done" /\ fn = "format_date_for_slack"

TypeOK ==
    /\ pc \in {"start", "done"}
    /\ fn \in {"build_query", "format_date_for_slack"}
    /\ BuiltQuery => query = join(" ", query_parts)

(***************************************************************************)
(* The state machine of the channel store: calls of save_channel,          *)
(* delete_channel and update_channel one after another, starting with no   *)
(* file.                                                                   *)
(***************************************************************************)
StoreInit ==
    /\ BuilderUnused
    /\ FormUnused
    /\ SessionsUnused
    /\ StoreUnused

\* whether the call got as far as the write of save_channels
Wrote(r) ==
    /\ r.raised = ""
    /\ r.value[2] \in {"Channels saved successfully!", "Error saving channels to file"}

\* the record of a call: how the write ends is part of it only if there is
\* a write
Recorded(c, outcome) ==
    [c EXCEPT !.io = IF c.io # "" /\ Wrote(outcome.ret) THEN c.io ELSE ""]

SaveChannelCall ==
    \E channel \in RawNames, io \in IoOutcomes :
        \E outcome \in {save_channel(channel, file, io)} :
            /\ call' = Recorded(Call("save_channel", channel, "", io), outcome)
            /\ prev' = file
            /\ file' = outcome.file
            /\ ret' = outcome.ret
            /\ UNCHANGED <<builderVars, sess, form>>

DeleteChannelCall ==
    \E channel \in ListedNames, io \in IoOutcomes :
        \E outcome \in {delete_channel(channel, file, io)} :
            /\ call' = Recorded(Call("delete_channel", channel, "", io), outcome)
            /\ prev' = file
            /\ file' = outcome.file
            /\ ret' = outcome.ret
            /\ UNCHANGED <<builderVars, sess, form>>

UpdateChannelCall ==
    \E old_channel \in ListedNames, new_channel \in RawNames, io \in IoOutcomes :
        \E outcome \in {update_channel(old_channel, new_channel, file, io)} :
            /\ call' = Recorded(Call("update_channel", old_channel, new_channel, io), outcome)
            /\ prev' = file
            /\ file' = outcome.file
            /\ ret' = outcome.ret
            /\ UNCHANGED <<builderVars, sess, form>>

StoreNext == SaveChannelCall \/ DeleteChannelCall \/ UpdateChannelCall

StoreSpec == StoreInit /\ [][StoreNext]_vars

(***************************************************************************)
(* The state machine of load_channels: one call on any document.           *)
(***************************************************************************)
LoadInit ==
    /\ BuilderUnused
    /\ FormUnused
    /\ SessionsUnused
    /\ file \in Documents
    /\ prev = file
    /\ call = NoCall
    /\ ret = Returned(<<>>)

LoadChannelsCall ==
    /\ call = NoCall
    /\ call' = Call("load_channels", "", "", "")
    /\ prev' = file
    /\ ret' = load_channels(file)
    /\ UNCHANGED <<builderVars, sess, form, file>>

LoadNext == LoadChannelsCall

LoadSpec == LoadInit /\ [][LoadNext]_vars

(***************************************************************************)
(* The state machine of two sessions that each click "Add Channel" once.   *)
(* Streamlit runs each session's script in a thread of its own and the     *)
(* store takes no lock, so the two calls of save_channel interleave at     *)
(* their file accesses: the read in load_channels and the write in         *)
(* save_channels.                                                          *)
(***************************************************************************)
SessionInit ==
    /\ BuilderUnused
    /\ FormUnused
    /\ StoreUnused
    /\ SessionsUnused

\* the click and save_channel up to the return of load_channels
SessionLoad(s) ==
    /\ sess[s].pc = "idle"
    /\ \E channel \in SessionNames :
          /\ Truthy(channel)
          /\ load_channels(file).raised = ""
          /\ sess' = [sess EXCEPT ![s] = [pc |-> "loaded", channel |-> channel,
                                          channels |-> load_channels(file).value,
                                          ret |-> Returned(<<>>)]]
    /\ UNCHANGED <<builderVars, storeVars, form>>

\* the rest of save_channel, with the write of save_channels
SessionSave(s) ==
    /\ sess[s].pc = "loaded"
    /\ \E io \in IoOutcomes :
          LET outcome == save_channel_loaded(sess[s].channel, sess[s].channels, file, io)
          IN  /\ file' = outcome.file
              /\ sess' = [sess EXCEPT ![s].pc = "returned", ![s].ret = outcome.ret]
    /\ UNCHANGED <<builderVars, call, ret, prev, form>>

SessionNext == \E s \in Sessions : SessionLoad(s) \/ SessionSave(s)

SessionSpec == SessionInit /\ [][SessionNext]_vars

(***************************************************************************)
(* The state machine of the form: one widget event of one browser session  *)
(* per step.  An event reruns the script; a button handler writes          *)
(* st.session_state and calls st.rerun().                                  *)
(***************************************************************************)
FormInit ==
    /\ BuilderUnused
    /\ StoreUnused
    /\ SessionsUnused
    /\ FormUnused

ToggleDateEnabled ==
    /\ form' = rerun([form EXCEPT !.date_enabled = ~@, !.click = NoClick])
    /\ UNCHANGED <<builderVars, storeVars, sess>>

ToggleUseDuring ==
    /\ form.date_enabled
    /\ form' = rerun([form EXCEPT !.use_during = ~@, !.click = NoClick])
    /\ UNCHANGED <<builderVars, storeVars, sess>>

ClickToday(slot) ==
    /\ Rendered(form, slot)
    /\ form' = rerun([form EXCEPT !.flags[slot] = Some(click_today(@[1])),
                                  !.click = Click(slot, "today", form.flags[slot])])
    /\ UNCHANGED <<builderVars, storeVars, sess>>

ClickYesterday(slot) ==
    /\ Rendered(form, slot)
    /\ form' = rerun([form EXCEPT !.flags[slot] = Some(click_yesterday(@[1])),
                                  !.click = Click(slot, "yesterday", form.flags[slot])])
    /\ UNCHANGED <<builderVars, storeVars, sess>>

ClickReset(slot) ==
    /\ Rendered(form, slot)
    /\ form' = rerun([form EXCEPT !.flags[slot] = Some(click_reset(@[1])),
                                  !.date[slot] = "None",
                                  !.click = Click(slot, "reset", form.flags[slot])])
    /\ UNCHANGED <<builderVars, storeVars, sess>>

FormNext ==
    \/ ToggleDateEnabled
    \/ ToggleUseDuring
    \/ \E slot \in DateSlots : ClickToday(slot)
    \/ \E slot \in DateSlots : ClickYesterday(slot)
    \/ \E slot \in DateSlots : ClickReset(slot)

FormSpec == FormInit /\ [][FormNext]_vars

(***************************************************************************)
(* Vocabulary of the properties.                                           *)
(***************************************************************************)
\* the positions of the tokens of query_parts that begin with prefix
TokensWith(prefix) ==
    {i \in 1..Len(query_parts) : startswith(query_parts[i], prefix)}

HasToken(t) == \E i \in 1..Len(query_parts) : query_parts[i] = t

DateTokens == TokensWith("during:") \cup TokensWith("after:") \cup TokensWith("before:")

\* the criterion a token belongs to, by its operator; the enumerated
\* keywords contain no ":", so only operator tokens have a rank below 6
Rank(t) ==
    IF startswith(t, "in:#") THEN 1
    ELSE IF startswith(t, "from:") THEN 2
    ELSE IF startswith(t, "has:") THEN 3
    ELSE IF startswith(t, "during:") \/ startswith(t, "after:") THEN 4
    ELSE IF startswith(t, "before:") THEN 5
    ELSE 6

RanksPresent == {Rank(query_parts[i]) : i \in 1..Len(query_parts)}

\* the position in q where the i-th of parts starts when the parts are
\* separated by one character
RECURSIVE Offset(_, _)
Offset(parts, i) ==
    IF i = 1 THEN 1 ELSE Offset(parts, i - 1) + Len(parts[i - 1]) + 1

\* q is the parts in order, with exactly one space between two neighbours
\* and nothing before the first or after the last
SingleSpaceJoined(q, parts) ==
    /\ parts = <<>> => q = ""
    /\ parts # <<>> =>
        /\ Len(q) = Offset(parts, Len(parts)) + Len(parts[Len(parts)]) - 1
        /\ \A i \in 1..Len(parts) :
              SubSeq(q, Offset(parts, i), Offset(parts, i) + Len(parts[i]) - 1) = parts[i]
        /\ \A i \in 1..(Len(parts) - 1) :
              LET p == Offset(parts, i) + Len(parts[i]) IN SubSeq(q, p, p) = " "

NoOuterSpace(q) ==
    q # "" => Head(q) # " " /\ SubSeq(q, Len(q), Len(q)) # " "

SlotSet(date, is_today, is_yesterday) == date # None \/ is_today \/ is_yesterday

IsDigit(c) == \E n \in 0..9 : Digit(n) = c
DigitValue(c) == CHOOSE n \in 0..9 : Digit(n) = c

\* the number a string of decimal digits denotes
RECURSIVE Number(_)
Number(s) ==
    IF s = "" THEN 0
    ELSE 10 * Number(SubSeq(s, 1, Len(s) - 1)) + DigitValue(SubSeq(s, Len(s), Len(s)))

AllDigits(s) == \A i \in 1..Len(s) : IsDigit(SubSeq(s, i, i))

\* s is d written YYYY-MM-DD
IsIsoDate(s, d) ==
    /\ Len(s) = 10
    /\ SubSeq(s, 5, 5) = "-" /\ SubSeq(s, 8, 8) = "-"
    /\ AllDigits(SubSeq(s, 1, 4)) /\ Number(SubSeq(s, 1, 4)) = d.year
    /\ AllDigits(SubSeq(s, 6, 7)) /\ Number(SubSeq(s, 6, 7)) = d.month
    /\ AllDigits(SubSeq(s, 9, 10)) /\ Number(SubSeq(s, 9, 10)) = d.day

\* s is the year of d in four digits
IsYear(s, d) == Len(s) = 4 /\ AllDigits(s) /\ Number(s) = d.year

EnglishMonth(m) ==
    CASE m = 1 -> "January" [] m = 2 -> "February" [] m = 3 -> "March"
      [] m = 4 -> "April" [] m = 5 -> "May" [] m = 6 -> "June"
      [] m = 7 -> "July" [] m = 8 -> "August" [] m = 9 -> "September"
      [] m = 10 -> "October" [] m = 11 -> "November" [] m = 12 -> "December"

(***************************************************************************)
(* C1: a from_user that is not empty but consists only of whitespace       *)
(* yields no token beginning with "from:".                                 *)
(* The code tests "if from_user" before stripping, so it appends "from:".  *)
(***************************************************************************)
C1_WhitespaceFromUserNoToken ==
    (BuiltQuery /\ args.from_user # "" /\ strip(args.from_user) = "")
        => TokensWith("from:") = {}

(***************************************************************************)
(* C2: the tokens come in the order channel, from-user, file type, date    *)
(* token(s), keywords; a criterion gives at most one token (the range      *)
(* mode at most one "after:" and one "before:"), an empty criterion gives  *)
(* none, and the result is the tokens separated by exactly one space with  *)
(* no space before the first or after the last.                            *)
(***************************************************************************)
C2_TokenOrder ==
    BuiltQuery =>
        /\ \A i, j \in 1..Len(query_parts) :
              i < j => Rank(query_parts[i]) < Rank(query_parts[j])
        /\ (1 \in RanksPresent) <=> (args.channel # "")
        /\ args.from_user = "" => 2 \notin RanksPresent
        /\ args.file_type = "" => 3 \notin RanksPresent
        /\ ~args.date_enabled => (4 \notin RanksPresent /\ 5 \notin RanksPresent)
        /\ args.keywords = "" => 6 \notin RanksPresent
        /\ SingleSpaceJoined(query, query_parts)
        /\ NoOuterSpace(query)
        /\ (/\ args.channel = "eng" /\ args.from_user = "bob"
            /\ args.file_type = "PDF" /\ args.keywords = "deploy"
            /\ ~args.date_enabled)
           => query = "in:#eng from:@bob has:pdf deploy"

C2_Witness ==
    /\ BuiltQuery
    /\ Len(query_parts) = 6
    /\ query = "in:#eng from:@b has:image after:2024-03-05 before:November kk"

(***************************************************************************)
(* C3: a from_user whose trimmed value is not empty yields exactly one     *)
(* token "from:<user>", <user> being the trimmed value if it starts with   *)
(* "@" and "@" followed by the trimmed value otherwise.                    *)
(***************************************************************************)
C3_FromUserToken ==
    (BuiltQuery /\ strip(args.from_user) # "") =>
        LET trimmed == strip(args.from_user)
            user == IF Head(trimmed) = "@" THEN trimmed ELSE "@" \o trimmed
        IN  /\ Cardinality(TokensWith("from:")) = 1
            /\ \A i \in TokensWith("from:") : query_parts[i] = "from:" \o user

C3_Witness ==
    /\ BuiltQuery
    /\ args.from_user = "@b "
    /\ HasToken("from:@b")

(***************************************************************************)
(* C4: with date_enabled false there is no "during:", "after:" or          *)
(* "before:" token, whatever the dates and the today/yesterday flags.      *)
(***************************************************************************)
C4_DisabledNoDateToken ==
    (BuiltQuery /\ ~args.date_enabled) => DateTokens = {}

C4_Witness ==
    /\ BuiltQuery
    /\ ~args.date_enabled
    /\ args.start_date # None
    /\ args.end_is_yesterday
    /\ args.during_is_today
    /\ args.channel = "eng"
    /\ query = "in:#eng from:@bob has:pdf deploy"

(***************************************************************************)
(* C5: with the date filter enabled, use_during true gives at most one     *)
(* "during:" token and no "after:" or "before:" token even when the start  *)
(* and end slots are populated; use_during false gives no "during:" token  *)
(* even when the during slot is populated.                                 *)
(***************************************************************************)
C5_ModesExclusive ==
    (BuiltQuery /\ args.date_enabled) =>
        /\ args.use_during =>
              /\ TokensWith("after:") = {}
              /\ TokensWith("before:") = {}
              /\ Cardinality(TokensWith("during:")) <= 1
        /\ ~args.use_during => TokensWith("during:") = {}

C5_Witness ==
    /\ BuiltQuery
    /\ args.date_enabled
    /\ args.use_during
    /\ args.start_date # None
    /\ args.end_is_today
    /\ query = "during:2024-03-05"

(***************************************************************************)
(* C6: in range mode each of the start and end slots gives its token on    *)
(* its own: a slot with neither flag and no date gives none, a slot with   *)
(* a flag or a date gives exactly one, whatever the other slot holds.      *)
(***************************************************************************)
C6_RangeSlotsIndependent ==
    (BuiltQuery /\ args.date_enabled /\ ~args.use_during) =>
        /\ Cardinality(TokensWith("after:")) =
              (IF SlotSet(args.start_date, args.start_is_today, args.start_is_yesterday)
               THEN 1 ELSE 0)
        /\ Cardinality(TokensWith("before:")) =
              (IF SlotSet(args.end_date, args.end_is_today, args.end_is_yesterday)
               THEN 1 ELSE 0)

C6_Witness ==
    /\ BuiltQuery
    /\ args.date_enabled
    /\ ~args.use_during
    /\ ~SlotSet(args.start_date, args.start_is_today, args.start_is_yesterday)
    /\ args.end_date = Some(Date(2024, 3, 5))
    /\ query = "before:March"

(***************************************************************************)
(* C7: is_today makes a slot resolve to "today", also when is_yesterday is *)
(* set too; otherwise is_yesterday makes it resolve to "yesterday"; the    *)
(* format and the date, an absent date included, play no part.             *)
(***************************************************************************)
C7_FlagsFirst ==
    /\ FormattedDate =>
          /\ args.is_today => date_str = Some("today")
          /\ (~args.is_today /\ args.is_yesterday) => date_str = Some("yesterday")
    /\ (BuiltQuery /\ args.date_enabled /\ args.use_during) =>
          /\ args.during_is_today => HasToken("during:today")
          /\ (~args.during_is_today /\ args.during_is_yesterday) =>
                HasToken("during:yesterday")

C7_Witness ==
    /\ FormattedDate
    /\ args.is_today
    /\ args.is_yesterday
    /\ args.date_obj = None
    /\ args.format_type = "Month"
    /\ date_str = Some("today")

(***************************************************************************)
(* C8: a slot with a date and neither flag resolves by its format: Full    *)
(* Date to YYYY-MM-DD, Month to the English month name alone, Year to the  *)
(* four-digit year alone, any other format to YYYY-MM-DD as well.          *)
(***************************************************************************)
C8_FormatByType ==
    (FormattedDate /\ args.date_obj # None /\ ~args.is_today /\ ~args.is_yesterday) =>
        /\ date_str # None
        /\ LET d == args.date_obj[1]
               s == date_str[1]
           IN  CASE args.format_type = "Month" -> s = EnglishMonth(d.month)
                 [] args.format_type = "Year" -> IsYear(s, d)
                 [] OTHER -> IsIsoDate(s, d)

C8_Witness ==
    /\ FormattedDate
    /\ args.date_obj = Some(Date(2026, 11, 28))
    /\ args.format_type = "Quarter"
    /\ ~args.is_today /\ ~args.is_yesterday
    /\ date_str = Some("2026-11-28")

(***************************************************************************)
(* C9: there is a file-type token exactly when file_type is PDF, Image,    *)
(* Snippet, GDoc or Spreadsheet, and it is has:pdf, has:image,             *)
(* has:snippet, has:gdoc, has:spreadsheet respectively; any other value,   *)
(* the empty one included, gives no token and the call still returns.      *)
(***************************************************************************)
C9_FileTypeToken ==
    BuiltQuery =>
        LET has == {query_parts[i] : i \in TokensWith("has:")}
        IN  /\ Cardinality(TokensWith("has:")) <= 1
            /\ CASE args.file_type = "PDF" -> has = {"has:pdf"}
                 [] args.file_type = "Image" -> has = {"has:image"}
                 [] args.file_type = "Snippet" -> has = {"has:snippet"}
                 [] args.file_type = "GDoc" -> has = {"has:gdoc"}
                 [] args.file_type = "Spreadsheet" -> has = {"has:spreadsheet"}
                 [] OTHER -> has = {}

C9_Witness ==
    /\ BuiltQuery
    /\ args.file_type = "GDoc"
    /\ query = "has:gdoc"

(***************************************************************************)
(* C10: with channel, from_user, file_type and keywords empty and the date *)
(* filter disabled, or enabled with every slot without date and flag, the  *)
(* result is the empty string.                                             *)
(***************************************************************************)
C10_EmptySelection ==
    (/\ BuiltQuery
     /\ args.channel = "" /\ args.from_user = ""
     /\ args.file_type = "" /\ args.keywords = ""
     /\ \/ ~args.date_enabled
        \/ /\ ~SlotSet(args.during_date, args.during_is_today, args.during_is_yesterday)
           /\ ~SlotSet(args.start_date, args.start_is_today, args.start_is_yesterday)
           /\ ~SlotSet(args.end_date, args.end_is_today, args.end_is_yesterday))
        => query = ""

C10_Witness ==
    /\ BuiltQuery
    /\ args.channel = "" /\ args.from_user = ""
    /\ args.file_type = "" /\ args.keywords = ""
    /\ args.date_enabled
    /\ args.during_date = None /\ args.start_date = None /\ args.end_date = None
    /\ args.during_date_format = "Month"
    /\ query = ""

(***************************************************************************)
(* Vocabulary of the properties of the channel store.                      *)
(***************************************************************************)
\* what list() returns on document f
Listed(f) == load_channels(f).value

SetOf(lst) == {lst[i] : i \in 1..Len(lst)}
Count(lst, x) == Cardinality({i \in 1..Len(lst) : lst[i] = x})
NoDuplicates(lst) == \A i, j \in 1..Len(lst) : lst[i] = lst[j] => i = j
Ascending(lst) == \A i, j \in 1..Len(lst) : i < j => ~str_lt(lst[j], lst[i])

Succeeded == ret = Returned(<<TRUE, "Channels saved successfully!">>)
Failed(message) == ret = Returned(<<FALSE, message>>)
EmptyName == Failed("Channel name cannot be empty")
DuplicateName(name) == Failed("Channel '" \o name \o "' already exists")
NotFound(name) == Failed("Channel '" \o name \o "' not found")
PersistenceError == Failed("Error saving channels to file")

\* the write of the last call did not fail
WriteNotFailed == call.io \notin {"open_fails", "write_fails"}

\* the item each raw name stands for: trimmed, one leading "#" removed,
\* trimmed again; "" if nothing is left
NameOf(raw) ==
    CASE raw \in {"", "  ", "#", "# "} -> ""
      [] raw \in {"general", "#general", " general ", "# general"} -> "general"
      [] raw = "##general" -> "#general"
      [] raw = "ops" -> "ops"
      [] raw = "Ops" -> "Ops"

\* a name that is its own normal form
ValidName(n) == n # "" /\ NameOf(n) = n

(***************************************************************************)
(* C11: for a valid normalized name n, after add(n) on a store reached by  *)
(* add/remove/rename from the empty store, list() holds n exactly once and *)
(* is sorted ascending; if n was already there the add fails with          *)
(* "already exists" and leaves the store as it was.  (The write is taken   *)
(* not to fail: a failing write is C18's case.)                            *)
(***************************************************************************)
C11_AddThenList ==
    (call.op = "save_channel" /\ ValidName(call.channel) /\ WriteNotFailed) =>
        LET n == call.channel
        IN  /\ Count(Listed(file), n) = 1
            /\ Ascending(Listed(file))
            /\ contains(Listed(prev), n) => (DuplicateName(n) /\ file = prev)
            /\ ~contains(Listed(prev), n) =>
                  (Succeeded /\ SetOf(Listed(file)) = SetOf(Listed(prev)) \cup {n})

C11_Witness ==
    /\ call = Call("save_channel", "Ops", "", "ok")
    /\ Succeeded
    /\ Listed(prev) = <<"#general", "general">>
    /\ Listed(file) = <<"#general", "Ops", "general">>

(***************************************************************************)
(* C12: after any sequence of add, remove and rename from the empty store  *)
(* every stored name is non-empty, none starts with "#", there are no      *)
(* duplicates and the persisted array is in ascending order.               *)
(* add("##general") stores "#general": only one "#" is removed.            *)
(***************************************************************************)
C12_StoredNames ==
    file.kind = "string_array" =>
        /\ \A i \in 1..Len(file.items) :
              file.items[i] # "" /\ ~startswith(file.items[i], "#")
        /\ NoDuplicates(file.items)
        /\ Ascending(file.items)

(***************************************************************************)
(* C13: add trims, removes one leading "#" and trims again, so             *)
(* add("#general") and add("general") store the same item "general": from  *)
(* the same store they leave the same store and return the same, and after *)
(* one of them has succeeded the other fails as a duplicate.               *)
(***************************************************************************)
C13_AddNormalizes ==
    (call.op = "save_channel" /\ call.channel \in {"general", "#general", " general ", "# general"}) =>
        /\ \A other \in {"general", "#general"}, io \in IoOutcomes :
              (call.io = io \/ call.io = "") =>
                 save_channel(other, prev, io) = Outcome(file, ret)
        /\ Succeeded =>
              /\ SetOf(Listed(file)) = SetOf(Listed(prev)) \cup {"general"}
              /\ \A other \in {"general", "#general"} :
                    save_channel(other, file, "ok")
                        = Outcome(file, Returned(<<FALSE, "Channel 'general' already exists">>))

C13_Witness ==
    /\ call = Call("save_channel", "#general", "", "ok")
    /\ Succeeded
    /\ Listed(prev) = <<"Ops">>
    /\ Listed(file) = <<"Ops", "general">>

(***************************************************************************)
(* C14: add of "", of whitespace, of "#" and of "#" followed by whitespace *)
(* fails with "cannot be empty" and the persisted document is the same     *)
(* before and after.                                                       *)
(***************************************************************************)
C14_AddEmptyName ==
    (call.op = "save_channel" /\ call.channel \in {"", "  ", "#", "# "}) =>
        (EmptyName /\ file = prev)

C14_Witness ==
    /\ call = Call("save_channel", "# ", "", "")
    /\ EmptyName
    /\ file = StringArrayFile(<<"Ops", "general">>)
    /\ prev = file

(***************************************************************************)
(* C15: remove of a name that is not in the store fails with "not found"   *)
(* and leaves the document unchanged; remove of a name that is in the      *)
(* store succeeds and leaves the previous names minus that one.  (The      *)
(* write is taken not to fail.)                                            *)
(***************************************************************************)
C15_Remove ==
    (call.op = "delete_channel" /\ WriteNotFailed) =>
        /\ ~contains(Listed(prev), call.channel) =>
              (NotFound(call.channel) /\ file = prev)
        /\ contains(Listed(prev), call.channel) =>
              /\ Succeeded
              /\ SetOf(Listed(file)) = SetOf(Listed(prev)) \ {call.channel}
              /\ Len(Listed(file)) = Len(Listed(prev)) - 1

C15_Witness ==
    /\ call = Call("delete_channel", "Ops", "", "ok")
    /\ Succeeded
    /\ Listed(prev) = <<"#general", "Ops", "general">>
    /\ Listed(file) = <<"#general", "general">>

(***************************************************************************)
(* C16: for every name x in the store, rename(x, x) succeeds and leaves    *)
(* the stored collection as it was, and so does a rename of x to a raw     *)
(* name that normalizes to x.  (The write is taken not to fail.)           *)
(* For the stored name "#general" of C12, rename("#general", "#general")   *)
(* normalizes the new name to "general".                                   *)
(***************************************************************************)
C16_RenameToSelf ==
    (/\ call.op = "update_channel"
     /\ contains(Listed(prev), call.channel)
     /\ (call.new_channel = call.channel \/ NameOf(call.new_channel) = call.channel)
     /\ WriteNotFailed)
        => (Succeeded /\ Listed(file) = Listed(prev))

(***************************************************************************)
(* C17: rename(old, newRaw) fails with "not found" if old is absent, else  *)
(* with "cannot be empty" if the normalized new name is empty, else with   *)
(* "already exists" if the normalized new name is a stored item other than *)
(* old; each of these failures leaves the document unchanged; otherwise    *)
(* the store becomes the previous names with old replaced by the           *)
(* normalized new name, sorted.  (The write is taken not to fail.)         *)
(***************************************************************************)
C17_Rename ==
    (call.op = "update_channel" /\ WriteNotFailed) =>
        LET before == Listed(prev)
            old == call.channel
            name == NameOf(call.new_channel)
        IN  CASE ~contains(before, old) -> NotFound(old) /\ file = prev
              [] contains(before, old) /\ name = "" -> EmptyName /\ file = prev
              [] contains(before, old) /\ name # "" /\ contains(before, name) /\ name # old ->
                    DuplicateName(name) /\ file = prev
              [] OTHER ->
                    /\ Succeeded
                    /\ SetOf(Listed(file)) = (SetOf(before) \ {old}) \cup {name}
                    /\ Len(Listed(file)) = Len(before)
                    /\ Ascending(Listed(file))

C17_Witness ==
    /\ call = Call("update_channel", "ops", "Ops", "ok")
    /\ Succeeded
    /\ Listed(prev) = <<"general", "ops">>
    /\ Listed(file) = <<"Ops", "general">>

(***************************************************************************)
(* C18: when the write of an add, remove or rename fails with an I/O       *)
(* error, the call returns "Error saving channels to file" and list()      *)
(* afterwards returns what it returned before the call.                    *)
(* open(..., "w") has emptied the file when json.dump or the close fails.  *)
(***************************************************************************)
C18_FailedWriteKeepsStore ==
    (call.op \in {"save_channel", "delete_channel", "update_channel"} /\ ~WriteNotFailed) =>
        (PersistenceError /\ Listed(file) = Listed(prev))

(***************************************************************************)
(* C19: list() never fails: it returns the empty sequence when there is no *)
(* file and when the content is not parseable, not an array, or an array   *)
(* whose elements are not all strings; otherwise it returns the stored     *)
(* names sorted ascending.                                                 *)
(* sorted() raises TypeError on an array that mixes str and numbers.       *)
(***************************************************************************)
C19_ListNeverFails ==
    call.op = "load_channels" =>
        /\ ret.raised = ""
        /\ prev.kind # "string_array" => ret.value = <<>>
        /\ prev.kind = "string_array" =>
              /\ Ascending(ret.value)
              /\ Len(ret.value) = Len(prev.items)
              /\ \A x \in SetOf(prev.items) : Count(ret.value, x) = Count(prev.items, x)

(***************************************************************************)
(* C20: no successful update is lost: when the add operations of two       *)
(* sessions, of distinct valid names, have both reported success, the      *)
(* store holds both names.                                                 *)
(* The two calls take no lock: both can load before either writes.         *)
(***************************************************************************)
C20_NoLostUpdate ==
    \A s, t \in Sessions :
        (/\ s # t
         /\ sess[s].pc = "returned" /\ sess[t].pc = "returned"
         /\ sess[s].ret = Returned(<<TRUE, "Channels saved successfully!">>)
         /\ sess[t].ret = Returned(<<TRUE, "Channels saved successfully!">>)
         /\ NameOf(sess[s].channel) # NameOf(sess[t].channel))
            => /\ contains(Listed(file), NameOf(sess[s].channel))
               /\ contains(Listed(file), NameOf(sess[t].channel))

(***************************************************************************)
(* C21: in the form's session state, for each of the three date slots,     *)
(* after any sequence of Today, Yesterday and Reset clicks the slot's      *)
(* is_today and is_yesterday are never both true: Today leaves             *)
(* (true, false), Yesterday (false, true), Reset (false, false); so the    *)
(* flags passed to build_query are never both true either.                 *)
(***************************************************************************)
C21_FlagsExclusive ==
    \A slot \in DateSlots :
        /\ form.flags[slot] # None =>
              ~(form.flags[slot][1].is_today /\ form.flags[slot][1].is_yesterday)
        /\ ~(form.passed[slot].is_today /\ form.passed[slot].is_yesterday)
        /\ (form.click.slot = slot /\ form.click.button = "today") =>
              form.flags[slot] = Some(Flags(TRUE, FALSE)) /\ form.passed[slot] = Flags(TRUE, FALSE)
        /\ (form.click.slot = slot /\ form.click.button = "yesterday") =>
              form.flags[slot] = Some(Flags(FALSE, TRUE)) /\ form.passed[slot] = Flags(FALSE, TRUE)
        /\ (form.click.slot = slot /\ form.click.button = "reset") =>
              form.flags[slot] = Some(Flags(FALSE, FALSE)) /\ form.passed[slot] = Flags(FALSE, FALSE)

C21_Witness ==
    /\ form.click = Click("start", "today", Some(Flags(FALSE, TRUE)))
    /\ form.flags["start"] = Some(Flags(TRUE, FALSE))
    /\ form.flags["end"] = Some(Flags(FALSE, TRUE))
    /\ form.flags["during"] = Some(Flags(FALSE, TRUE))
    /\ form.passed["start"] = Flags(TRUE, FALSE)
    /\ form.passed["end"] = Flags(FALSE, TRUE)

====
